---- MODULE Spec2Model ----
(***************************************************************************)
(* cdx: a session-registry wrapper around the codex command-line tool.     *)
(* The model follows src/bin/cdx.js.                                       *)
(*                                                                         *)
(* Text is a sequence of one-character strings.  A JavaScript value that   *)
(* is falsy where the code only tests truthiness (undefined, null, "") is  *)
(* the empty text <<>>.                                                    *)
(***************************************************************************)
EXTENDS Integers, Sequences, FiniteSets, TLC

\* ---------------------------------------------------------------- bounds

\* Directories form a chain 0 (filesystem root), 1, ..., MaxDepth.
MaxDepth == 2
\* At most this many lines are ever appended to the registry files in total.
MaxLines == 3
\* history.jsonl holds at most this many lines.
MaxHistory == 3
\* Modification times of session files range over 1..MaxTime.
MaxTime == 2
\* A label handed to sanitizeLabel on its own has at most this many characters.
MaxText == 4

\* ------------------------------------------------------------ characters

TAB == "\t"
NL == "\n"
CR == "\r"
SP == " "

\* String.prototype.trim strips these from both ends.
IsWhiteSpace(c) == c \in {SP, TAB, NL, CR}

RECURSIVE trimStart(_)
trimStart(s) ==
  IF s # <<>> /\ IsWhiteSpace(Head(s)) THEN trimStart(Tail(s)) ELSE s

RECURSIVE trimEnd(_)
trimEnd(s) ==
  IF s # <<>> /\ IsWhiteSpace(s[Len(s)])
  THEN trimEnd(SubSeq(s, 1, Len(s) - 1))
  ELSE s

trim(s) == trimEnd(trimStart(s))

\* s.split("\n"): the pieces between newlines, empty pieces included.
RECURSIVE splitAcc(_, _, _)
splitAcc(s, cur, out) ==
  IF s = <<>> THEN Append(out, cur)
  ELSE IF Head(s) = NL THEN splitAcc(Tail(s), <<>>, Append(out, cur))
  ELSE splitAcc(Tail(s), Append(cur, Head(s)), out)

split(s) == splitAcc(s, <<>>, <<>>)

\* s.indexOf(c), counted from 1; 0 when c does not occur (JavaScript: -1).
RECURSIVE indexOfFrom(_, _, _)
indexOfFrom(s, c, i) ==
  IF i > Len(s) THEN 0
  ELSE IF s[i] = c THEN i
  ELSE indexOfFrom(s, c, i + 1)

indexOf(s, c) == indexOfFrom(s, c, 1)

\* s.replace(/[\t\n\r]+/g, " "): every maximal run becomes one space.
RECURSIVE replaceRuns(_, _)
replaceRuns(s, inRun) ==
  IF s = <<>> THEN <<>>
  ELSE IF Head(s) \in {TAB, NL, CR}
       THEN (IF inRun THEN <<>> ELSE <<SP>>) \o replaceRuns(Tail(s), TRUE)
       ELSE <<Head(s)>> \o replaceRuns(Tail(s), FALSE)

sanitizeLabelStripOne(label) ==
  LET replaced == replaceRuns(label, FALSE)
      front == IF replaced # <<>> /\ IsWhiteSpace(Head(replaced))
               THEN Tail(replaced) ELSE replaced
  IN IF front # <<>> /\ IsWhiteSpace(front[Len(front)])
     THEN SubSeq(front, 1, Len(front) - 1) ELSE front

\* sanitizeLabel: replace the runs, then trim.
sanitizeLabel(label) == trim(replaceRuns(label, FALSE))

\* ------------------------------------------------------- the file system

Dirs == 0 .. MaxDepth

\* path.dirname(dir): the root is its own parent.
dirname(dir) == IF dir = 0 THEN 0 ELSE dir - 1

\* A .cdx file of a directory: absent, or present with its content.
NoFile == [exists |-> FALSE, content |-> <<>>]

findCdxFileNoWalk(fs, dir) == [found |-> fs[dir].exists, dir |-> dir]

\* findCdxFile: the nearest directory from startDir upwards holding a .cdx.
RECURSIVE findCdxFile(_, _)
findCdxFile(fs, dir) ==
  IF fs[dir].exists THEN [found |-> TRUE, dir |-> dir]
  ELSE IF dirname(dir) = dir THEN [found |-> FALSE, dir |-> dir]
  ELSE findCdxFile(fs, dirname(dir))

RECURSIVE parseLinesUntilBad(_)
parseLinesUntilBad(lines) ==
  IF lines = <<>> THEN <<>>
  ELSE LET line == trim(Head(lines))
           rest == parseLinesUntilBad(Tail(lines))
           tabIndex == indexOf(line, TAB)
           uuid == trim(SubSeq(line, 1, tabIndex - 1))
           label == trim(SubSeq(line, tabIndex + 1, Len(line)))
       IN IF line = <<>> THEN rest
          ELSE IF tabIndex = 0 THEN <<>>
          ELSE IF uuid = <<>> \/ label = <<>> THEN <<>>
          ELSE <<[uuid |-> uuid, label |-> label]>> \o rest

\* The lines of loadEntries after split, trim and filter(Boolean), parsed.
RECURSIVE parseLines(_)
parseLines(lines) ==
  IF lines = <<>> THEN <<>>
  ELSE LET line == trim(Head(lines))
           rest == parseLines(Tail(lines))
           tabIndex == indexOf(line, TAB)
           uuid == trim(SubSeq(line, 1, tabIndex - 1))
           label == trim(SubSeq(line, tabIndex + 1, Len(line)))
       IN IF line = <<>> THEN rest
          ELSE IF tabIndex = 0 THEN rest
          ELSE IF uuid = <<>> \/ label = <<>> THEN rest
          ELSE <<[uuid |-> uuid, label |-> label]>> \o rest

\* loadEntries(filePath); hasPath is FALSE for an undefined filePath.
loadEntries(fs, hasPath, dir) ==
  IF ~hasPath \/ ~fs[dir].exists THEN <<>>
  ELSE parseLines(split(fs[dir].content))

entryLine(e) == e.uuid \o <<TAB>> \o e.label

\* appendEntry: fs.appendFileSync creates the file when it is missing.
appendEntry(fs, dir, entry) ==
  [fs EXCEPT ![dir] = [exists |-> TRUE,
                       content |-> @.content \o entryLine(entry) \o <<NL>>]]

joinLinesFirstOnly(entries) ==
  IF entries = <<>> THEN <<>> ELSE entryLine(entries[1])

\* entries.map((e) => `${e.uuid}\t${e.label}`).join("\n")
RECURSIVE joinLines(_)
joinLines(entries) ==
  IF entries = <<>> THEN <<>>
  ELSE IF Len(entries) = 1 THEN entryLine(entries[1])
  ELSE entryLine(entries[1]) \o <<NL>> \o joinLines(Tail(entries))

writeEntriesKeepEmpty(fs, dir, entries) ==
  [fs EXCEPT ![dir] = [exists |-> TRUE,
                       content |-> IF entries = <<>> THEN <<>>
                                   ELSE joinLines(entries) \o <<NL>>]]

\* writeEntries: no entries left deletes the file, else it is rewritten.
writeEntries(fs, dir, entries) ==
  IF entries = <<>>
  THEN (IF fs[dir].exists THEN [fs EXCEPT ![dir] = NoFile] ELSE fs)
  ELSE [fs EXCEPT ![dir] = [exists |-> TRUE,
                            content |-> joinLines(entries) \o <<NL>>]]

\* ------------------------------------------- the tool's session storage

\* The .jsonl files under ~/.codex/sessions, in the order readdirSync lists
\* them.  Each is absent, or present with a modification time and the id of
\* a well-formed session_meta first line (<<>> when there is none).
SessionPaths == 1 .. 2

NoSessionFile == [exists |-> FALSE, mtimeMs |-> 0, meta |-> <<>>]

\* The ids the tool hands out.
ToolIds == {<<"u">>, <<"m">>}

\* extractIdFromFilename: the file name of path 1 ends in <uuid>.jsonl with
\* uuid "u"; the name of path 2 carries no uuid.
extractIdFromFilename(path) == IF path = 1 THEN <<"u">> ELSE <<>>

\* readSessionIdFromFile: the session_meta id, else the id in the file name.
readSessionIdFromFile(ss, path) ==
  IF ss[path].meta # <<>> THEN ss[path].meta ELSE extractIdFromFilename(path)

\* collectSessionFiles: the files that exist, with their mtime.
RECURSIVE collectFrom(_, _)
collectFrom(ss, path) ==
  IF path \notin SessionPaths THEN <<>>
  ELSE (IF ss[path].exists
        THEN <<[path |-> path, mtimeMs |-> ss[path].mtimeMs]>>
        ELSE <<>>) \o collectFrom(ss, path + 1)

collectSessionFiles(ss) == collectFrom(ss, 1)

\* Array.prototype.sort with (a, b) => a.mtimeMs - b.mtimeMs is stable:
\* equal mtimes keep their order.
RECURSIVE insertByMtime(_, _)
insertByMtime(sorted, f) ==
  IF sorted = <<>> THEN <<f>>
  ELSE IF sorted[Len(sorted)].mtimeMs <= f.mtimeMs THEN Append(sorted, f)
  ELSE Append(insertByMtime(SubSeq(sorted, 1, Len(sorted) - 1), f),
              sorted[Len(sorted)])

sortByMtimeSkipped(fileList) == fileList

RECURSIVE sortByMtime(_)
sortByMtime(fileList) ==
  IF fileList = <<>> THEN <<>>
  ELSE insertByMtime(sortByMtime(SubSeq(fileList, 1, Len(fileList) - 1)),
                     fileList[Len(fileList)])

NoSnapshot == [exists |-> FALSE, id |-> <<>>, mtimeMs |-> 0, path |-> 0]

\* getLatestSessionSnapshot: null without files, else the last after sorting.
getLatestSessionSnapshot(ss) ==
  LET sorted == sortByMtime(collectSessionFiles(ss))
      latest == sorted[Len(sorted)]
  IN IF sorted = <<>> THEN NoSnapshot
     ELSE [exists |-> TRUE,
           id |-> readSessionIdFromFile(ss, latest.path),
           mtimeMs |-> latest.mtimeMs,
           path |-> latest.path]

\* ------------------------------------------------------ the history log

\* A line of history.jsonl: ok is whether JSON.parse yields an object,
\* session_id its session_id (<<>> when missing or falsy).
NoHistory == [exists |-> FALSE, lines |-> <<>>]

\* The session ids the log may hold: those of the session files, and "h",
\* a session whose file is gone.
HistoryIds == ToolIds \cup {<<"h">>}

\* The lines the log is made of: a malformed one, and one per id.
HistoryLines ==
  {[ok |-> FALSE, session_id |-> <<>>]}
    \cup {[ok |-> TRUE, session_id |-> id] : id \in HistoryIds}

RECURSIVE lastIdFrom(_, _)
lastIdFrom(lines, i) ==
  IF i = 0 THEN <<>>
  ELSE IF lines[i].ok /\ lines[i].session_id # <<>> THEN lines[i].session_id
  ELSE lastIdFrom(lines, i - 1)

\* getLastHistorySessionId: the last session_id of the log, scanning back.
getLastHistorySessionId(h) ==
  IF ~h.exists THEN <<>> ELSE lastIdFrom(h.lines, Len(h.lines))

RECURSIVE newestSinceFrom(_, _, _)
newestSinceFrom(lines, previousId, i) ==
  IF i = 0 THEN <<>>
  ELSE IF lines[i].ok /\ lines[i].session_id # <<>>
          /\ lines[i].session_id # previousId
       THEN lines[i].session_id
  ELSE newestSinceFrom(lines, previousId, i - 1)

RECURSIVE oldestSinceFrom(_, _, _)
oldestSinceFrom(lines, previousId, i) ==
  IF i > Len(lines) THEN <<>>
  ELSE IF lines[i].ok /\ lines[i].session_id # <<>>
          /\ lines[i].session_id # previousId
       THEN lines[i].session_id
  ELSE oldestSinceFrom(lines, previousId, i + 1)

getOldestHistorySessionIdSince(h, previousId) ==
  IF ~h.exists THEN <<>> ELSE oldestSinceFrom(h.lines, previousId, 1)

\* getNewestHistorySessionIdSince: the last session_id other than previousId.
getNewestHistorySessionIdSince(h, previousId) ==
  IF ~h.exists THEN <<>> ELSE newestSinceFrom(h.lines, previousId, Len(h.lines))

\* ------------------------------------------------------ running the tool

\* spawnSync's result.status when the child was killed or never started.
NullStatus == -1

\* What one call of runCodex meets: the error of the direct spawn, its exit
\* status, the platform, and the PowerShell retry's error and status.
CodexOutcomes ==
  {[error |-> "none", status |-> st, platform |-> "linux",
    psError |-> FALSE, psStatus |-> NullStatus] : st \in {0, 2, NullStatus}}
  \cup {[error |-> "ENOENT", status |-> NullStatus, platform |-> "win32",
         psError |-> FALSE, psStatus |-> st] : st \in {0, 2}}
  \cup {[error |-> e.error, status |-> NullStatus, platform |-> e.platform,
         psError |-> TRUE, psStatus |-> NullStatus] :
          e \in {[error |-> "ENOENT", platform |-> "linux"],
                 [error |-> "ENOENT", platform |-> "win32"],
                 [error |-> "EACCES", platform |-> "linux"]}}

UsesPowerShell(o) == o.error = "ENOENT" /\ o.platform = "win32" /\ ~o.psError

\* The tool itself ran (directly or through PowerShell).
ToolRan(o) == o.error = "none" \/ UsesPowerShell(o)

runCodexAlwaysReturns(o) == TRUE

\* runCodex returns to its caller (it does not call process.exit).
runCodexReturns(o) ==
  IF o.error # "none" THEN UsesPowerShell(o) /\ o.psStatus = 0
  ELSE o.status = 0

\* The code runCodex exits the process with when it does not return.
runCodexExitCode(o) ==
  IF o.error # "none"
  THEN (IF UsesPowerShell(o)
        THEN (IF o.psStatus = NullStatus THEN 1 ELSE o.psStatus)
        ELSE 1)
  ELSE (IF o.status = NullStatus THEN 1 ELSE o.status)

\* ---------------------------------------------------------------- state

\* files[d] is the .cdx file of directory d; sessions and history are the
\* tool's storage under ~/.codex; proc[p] is the cdx process p: where it
\* stands (pc), the locals of the flow it runs, and what it did (trace,
\* exitCode, and files0, the registry files as they were when it started).
\* When a function of the registry codec is run on its own, given is the
\* entries handed to writeEntries and raw the text handed to sanitizeLabel.
\* When the loop of findCdxFile is run step by step, dir is its variable
\* and visited the directories it has tested, in order.
VARIABLES files, sessions, history, proc

vars == <<files, sessions, history, proc>>

Procs == {1, 2}

NoEntry == [uuid |-> <<>>, label |-> <<>>]
NoSelection == [type |-> "none", entry |-> NoEntry]
NoSpawn == [args |-> <<>>, cwd |-> 0]

\* No call of runCodex has ended in this process.
NoOutcome ==
  [error |-> "unspawned", status |-> NullStatus, platform |-> "linux",
   psError |-> FALSE, psStatus |-> NullStatus]

RESUME == <<"r", "e", "s", "u", "m", "e">>
ADD == <<"a", "d", "d">>

\* A process that has not run anything.
IdleProc ==
  [pc |-> "idle", cmd |-> "none", startDir |-> 0, here |-> FALSE,
   found |-> FALSE, cdxPath |-> 0, entries |-> <<>>,
   selection |-> NoSelection, uuid |-> <<>>, label |-> <<>>,
   previousHistoryId |-> <<>>, previousSession |-> NoSnapshot,
   latestSession |-> NoSnapshot, newId |-> <<>>, spawned |-> NoSpawn,
   codex |-> NoOutcome, exitCode |-> 0, trace |-> <<>>,
   files0 |-> [d \in Dirs |-> NoFile], given |-> <<>>, raw |-> <<>>,
   dir |-> 0, visited |-> <<>>]

\* main: a new process in startDir running subcommand cmd.
Fresh(cmd, startDir) ==
  [IdleProc EXCEPT !.pc = "running", !.cmd = cmd, !.startDir = startDir,
                   !.files0 = files]

\* The flow returns to main, which ends the process with code 0.
Return(r) == [r EXCEPT !.pc = "idle", !.exitCode = 0]

\* process.exit(code)
Exit(r, code) == [r EXCEPT !.pc = "idle", !.exitCode = code]

Log(r, event) == [r EXCEPT !.trace = Append(@, event)]

RECURSIVE countNL(_)
countNL(s) ==
  IF s = <<>> THEN 0
  ELSE (IF Head(s) = NL THEN 1 ELSE 0) + countNL(Tail(s))

RECURSIVE linesUpTo(_, _)
linesUpTo(fs, d) ==
  countNL(fs[d].content) + (IF d = 0 THEN 0 ELSE linesUpTo(fs, d - 1))

\* The lines held by all registry files together.
LineCount(fs) == linesUpTo(fs, MaxDepth)

\* JavaScript args[i]; undefined (<<>>) past the end.
argAt(args, i) == IF Len(args) > i THEN args[i + 1] ELSE <<>>

\* ------------------------------------------------------------ discovery

primarySignalNoPath(latestSession, previousSession) ==
  /\ latestSession.exists
  /\ latestSession.id # <<>>
  /\ \/ ~previousSession.exists
     \/ latestSession.mtimeMs > previousSession.mtimeMs

\* The condition of runDefault's first branch.
primarySignal(latestSession, previousSession) ==
  /\ latestSession.exists
  /\ latestSession.id # <<>>
  /\ \/ ~previousSession.exists
     \/ latestSession.path # previousSession.path
     \/ latestSession.mtimeMs > previousSession.mtimeMs

\* runDefault's choice of newId (<<>> is null).
reconcile(latestSession, previousSession, previousHistoryId, h) ==
  IF primarySignal(latestSession, previousSession) THEN latestSession.id
  ELSE IF previousHistoryId # <<>>
       THEN getNewestHistorySessionIdSince(h, previousHistoryId)
  ELSE <<>>

discoveryNeverFails(newId) == FALSE

\* if (!newId): no identifier was found.
discoveryFailed(newId) == newId = <<>>

\* What one run of the tool may do to its storage: touch (create, rewrite
\* or delete) at most one session file, and append at most one history line.
SessionFileStates ==
  {NoSessionFile}
    \cup {[exists |-> TRUE, mtimeMs |-> t, meta |-> m] :
            t \in 1 .. MaxTime, m \in {<<>>, <<"m">>}}

AnyToolEffect(ss, h) ==
  {[sessions |-> s2, history |-> h2] :
     s2 \in {ss} \cup {[ss EXCEPT ![k] = f] :
                         k \in SessionPaths, f \in SessionFileStates},
     h2 \in {h} \cup {[exists |-> TRUE, lines |-> Append(h.lines, l)] :
                        l \in {x \in HistoryLines : Len(h.lines) < MaxHistory}}}

\* An orderly tool: a run does nothing, or starts the session "m": it
\* creates session file 2 with that session_meta id, newer than all other
\* files, and logs the id in the history.
OrderlyToolEffect(ss, h) ==
  {e \in AnyToolEffect(ss, h) :
     \/ e.sessions = ss /\ e.history = h
     \/ /\ ~ss[2].exists
        /\ e.sessions[2] = [exists |-> TRUE,
                            mtimeMs |-> Len(collectSessionFiles(ss)) + 1,
                            meta |-> <<"m">>]
        /\ e.history = [exists |-> TRUE,
                        lines |-> Append(h.lines, [ok |-> TRUE,
                                                   session_id |-> <<"m">>])]}

\* ------------------------------------------------------------ runDefault

\* selectSession is asked only when there are entries and "new" is not forced.
selectsNew(forceNew, entries) == forceNew \/ entries = <<>>

\* runDefault up to its first prompt: resolve the registry, load it, print
\* its path; then promptLabel (new session) or selectSession.
StartDefault(p, startDir, here, forceNew) ==
  /\ proc[p].pc = "idle"
  /\ LET found == IF here THEN [found |-> FALSE, dir |-> startDir]
                  ELSE findCdxFile(files, startDir)
         workDir == IF found.found THEN found.dir ELSE startDir
         entries == loadEntries(files, found.found, found.dir)
         new == selectsNew(forceNew, entries)
         r == [Fresh("default", startDir) EXCEPT
                 !.here = here, !.found = found.found, !.cdxPath = workDir,
                 !.entries = entries, !.trace = <<"path">>,
                 !.selection = IF new THEN [type |-> "new", entry |-> NoEntry]
                               ELSE NoSelection,
                 !.pc = IF new THEN "promptLabel" ELSE "selectSession"]
     IN /\ new => LineCount(files) < MaxLines
        /\ proc' = [proc EXCEPT ![p] = r]
  /\ UNCHANGED <<files, sessions, history>>

\* selectSession answers undefined (the list prompt was cancelled).
SelectCancelled(p) ==
  /\ proc[p].pc = "selectSession"
  /\ proc' = [proc EXCEPT ![p] = Return(@)]
  /\ UNCHANGED <<files, sessions, history>>

\* selectSession answers {type: "new"}.
SelectNew(p) ==
  /\ proc[p].pc = "selectSession"
  /\ LineCount(files) < MaxLines
  /\ proc' = [proc EXCEPT ![p] =
                [@ EXCEPT !.selection = [type |-> "new", entry |-> NoEntry],
                          !.pc = "promptLabel"]]
  /\ UNCHANGED <<files, sessions, history>>

resumeArgsLabel(entry) == <<RESUME, entry.label>>

\* The arguments of the resume call of runCodex.
resumeArgs(entry) == <<RESUME, entry.uuid>>

\* selectSession answers {type: "resume", entry: entries[index - 1]}, and
\* runDefault starts the tool on it.
SelectResume(p, index) ==
  /\ proc[p].pc = "selectSession"
  /\ index \in 1 .. Len(proc[p].entries)
  /\ LET entry == proc[p].entries[index]
     IN proc' = [proc EXCEPT ![p] =
                   Log([@ EXCEPT !.selection = [type |-> "resume",
                                                entry |-> entry],
                                 !.spawned = [args |-> resumeArgs(entry),
                                              cwd |-> proc[p].cdxPath],
                                 !.pc = "codexResume"],
                       "spawn")]
  /\ UNCHANGED <<files, sessions, history>>

\* The resumed tool ends: runCodex exits the process or returns.
CodexResumeExit(p, o, e) ==
  /\ proc[p].pc = "codexResume"
  /\ o \in CodexOutcomes
  /\ e \in AnyToolEffect(sessions, history)
  /\ ~ToolRan(o) => (e.sessions = sessions /\ e.history = history)
  /\ sessions' = e.sessions
  /\ history' = e.history
  /\ LET r == [proc[p] EXCEPT !.codex = o]
     IN proc' = [proc EXCEPT ![p] =
                   IF runCodexReturns(o) THEN Return(Log(r, "returned"))
                   ELSE Exit(r, runCodexExitCode(o))]
  /\ UNCHANGED files

\* promptLabel answers undefined (cancelled): both flows return.
LabelCancelled(p) ==
  /\ proc[p].pc = "promptLabel"
  /\ proc' = [proc EXCEPT ![p] = Return(@)]
  /\ UNCHANGED <<files, sessions, history>>

\* promptLabel's validate: value && value.trim()
promptAccepts(value) == trim(value) # <<>>

\* New session, from the label to the start of the tool: sanitize the
\* label, read the last history id and the latest snapshot, spawn.
NewLabelGiven(p, labelInput) ==
  /\ proc[p].pc = "promptLabel"
  /\ proc[p].cmd = "default"
  /\ promptAccepts(labelInput)
  /\ proc' = [proc EXCEPT ![p] =
                [@ EXCEPT !.label = sanitizeLabel(labelInput),
                          !.previousHistoryId = getLastHistorySessionId(history),
                          !.previousSession = getLatestSessionSnapshot(sessions),
                          !.spawned = [args |-> <<>>, cwd |-> proc[p].cdxPath],
                          !.trace = @ \o <<"lastHistoryId", "snapshot", "spawn">>,
                          !.pc = "codexNew"]]
  /\ UNCHANGED <<files, sessions, history>>

CodexNewExitEarlySnapshot(p, o, e) ==
  /\ proc[p].pc = "codexNew"
  /\ o \in CodexOutcomes
  /\ e \in AnyToolEffect(sessions, history)
  /\ ~ToolRan(o) => (e.sessions = sessions /\ e.history = history)
  /\ sessions' = e.sessions
  /\ history' = e.history
  /\ LET r == [proc[p] EXCEPT !.codex = o]
         latestSession == getLatestSessionSnapshot(sessions)
         primary == primarySignal(latestSession, r.previousSession)
         newId == reconcile(latestSession, r.previousSession,
                            r.previousHistoryId, e.history)
         events == <<"returned", "snapshot">>
                     \o (IF ~primary /\ r.previousHistoryId # <<>>
                         THEN <<"newestSince">> ELSE <<>>)
         r2 == [r EXCEPT !.latestSession = latestSession, !.newId = newId,
                         !.trace = @ \o events]
     IN IF ~runCodexReturns(o)
        THEN /\ proc' = [proc EXCEPT ![p] = Exit(r, runCodexExitCode(o))]
             /\ UNCHANGED files
        ELSE IF discoveryFailed(newId)
        THEN /\ proc' = [proc EXCEPT ![p] = Return(Log(r2, "error"))]
             /\ UNCHANGED files
        ELSE /\ proc' = [proc EXCEPT ![p] = Return(Log(r2, "append"))]
             /\ files' = appendEntry(files, r.cdxPath,
                                     [uuid |-> newId, label |-> r.label])

\* The tool of a new session ends.  runCodex exits the process, or returns
\* and runDefault takes the second snapshot, picks newId and appends.
CodexNewExit(p, o, e) ==
  /\ proc[p].pc = "codexNew"
  /\ o \in CodexOutcomes
  /\ e \in AnyToolEffect(sessions, history)
  /\ ~ToolRan(o) => (e.sessions = sessions /\ e.history = history)
  /\ sessions' = e.sessions
  /\ history' = e.history
  /\ LET r == [proc[p] EXCEPT !.codex = o]
         latestSession == getLatestSessionSnapshot(e.sessions)
         primary == primarySignal(latestSession, r.previousSession)
         newId == reconcile(latestSession, r.previousSession,
                            r.previousHistoryId, e.history)
         events == <<"returned", "snapshot">>
                     \o (IF ~primary /\ r.previousHistoryId # <<>>
                         THEN <<"newestSince">> ELSE <<>>)
         r2 == [r EXCEPT !.latestSession = latestSession, !.newId = newId,
                         !.trace = @ \o events]
     IN IF ~runCodexReturns(o)
        THEN /\ proc' = [proc EXCEPT ![p] = Exit(r, runCodexExitCode(o))]
             /\ UNCHANGED files
        ELSE IF discoveryFailed(newId)
        THEN /\ proc' = [proc EXCEPT ![p] = Return(Log(r2, "error"))]
             /\ UNCHANGED files
        ELSE /\ proc' = [proc EXCEPT ![p] = Return(Log(r2, "append"))]
             /\ files' = appendEntry(files, r.cdxPath,
                                     [uuid |-> newId, label |-> r.label])

\* ------------------------------------------------------------- runRemove

StartRemoveCleansUp(p, startDir) ==
  /\ proc[p].pc = "idle"
  /\ LET found == findCdxFile(files, startDir)
         entries == loadEntries(files, TRUE, found.dir)
         r == [Fresh("rm", startDir) EXCEPT !.found = found.found,
                                            !.cdxPath = found.dir]
     IN /\ proc' = [proc EXCEPT ![p] =
                      IF ~found.found THEN Return(Log(r, "message"))
                      ELSE IF entries = <<>> THEN Return(Log(r, "message"))
                      ELSE [Log(r, "path") EXCEPT !.entries = entries,
                                                  !.pc = "removeSelect"]]
        /\ files' = IF found.found /\ entries = <<>>
                    THEN writeEntries(files, found.dir, entries)
                    ELSE files
  /\ UNCHANGED <<sessions, history>>

\* runRemove up to its prompt: find and load the registry; nothing to
\* remove ends the flow with a message.
StartRemove(p, startDir) ==
  /\ proc[p].pc = "idle"
  /\ LET found == findCdxFile(files, startDir)
         entries == loadEntries(files, TRUE, found.dir)
         r == [Fresh("rm", startDir) EXCEPT !.found = found.found,
                                            !.cdxPath = found.dir]
     IN proc' = [proc EXCEPT ![p] =
                   IF ~found.found THEN Return(Log(r, "message"))
                   ELSE IF entries = <<>> THEN Return(Log(r, "message"))
                   ELSE [Log(r, "path") EXCEPT !.entries = entries,
                                               !.pc = "removeSelect"]]
  /\ UNCHANGED <<files, sessions, history>>

\* Neither prompt of runRemove gave a selection.
RemoveCancelled(p) ==
  /\ proc[p].pc = "removeSelect"
  /\ proc' = [proc EXCEPT ![p] = Return(@)]
  /\ UNCHANGED <<files, sessions, history>>

RECURSIVE dropFirst(_, _)
dropFirst(entries, selectedUuid) ==
  IF entries = <<>> THEN <<>>
  ELSE IF Head(entries).uuid = selectedUuid THEN Tail(entries)
  ELSE <<Head(entries)>> \o dropFirst(Tail(entries), selectedUuid)

\* entries.filter((entry) => entry.uuid !== selectedUuid)
RECURSIVE remaining(_, _)
remaining(entries, selectedUuid) ==
  IF entries = <<>> THEN <<>>
  ELSE (IF Head(entries).uuid # selectedUuid THEN <<Head(entries)>> ELSE <<>>)
         \o remaining(Tail(entries), selectedUuid)

RemoveSelectReloads(p, index) ==
  /\ proc[p].pc = "removeSelect"
  /\ index \in 1 .. Len(proc[p].entries)
  /\ LET r == proc[p]
         selectedUuid == r.entries[index].uuid
         rest == remaining(loadEntries(files, TRUE, r.cdxPath), selectedUuid)
     IN /\ files' = writeEntries(files, r.cdxPath, rest)
        /\ proc' = [proc EXCEPT ![p] =
                      Return(Log([r EXCEPT !.selection =
                                     [type |-> "remove",
                                      entry |-> r.entries[index]]],
                                 IF rest = <<>> THEN "unlink" ELSE "write"))]
  /\ UNCHANGED <<sessions, history>>

\* A prompt of runRemove selects entries[index - 1]; the entries loaded at
\* the start, without those of that uuid, are written back.
RemoveSelect(p, index) ==
  /\ proc[p].pc = "removeSelect"
  /\ index \in 1 .. Len(proc[p].entries)
  /\ LET r == proc[p]
         selectedUuid == r.entries[index].uuid
         rest == remaining(r.entries, selectedUuid)
     IN /\ files' = writeEntries(files, r.cdxPath, rest)
        /\ proc' = [proc EXCEPT ![p] =
                      Return(Log([r EXCEPT !.selection =
                                     [type |-> "remove",
                                      entry |-> r.entries[index]]],
                                 IF rest = <<>> THEN "unlink" ELSE "write"))]
  /\ UNCHANGED <<sessions, history>>

\* --------------------------------------------------------------- runInit

RunInitWalkUp(p, startDir) ==
  /\ proc[p].pc = "idle"
  /\ IF findCdxFile(files, startDir).found
     THEN /\ proc' = [proc EXCEPT ![p] =
                        Return(Log(Fresh("init", startDir), "message"))]
          /\ UNCHANGED files
     ELSE /\ proc' = [proc EXCEPT ![p] =
                        Return(Log(Fresh("init", startDir), "create"))]
          /\ files' = [files EXCEPT ![startDir] =
                         [exists |-> TRUE, content |-> <<>>]]
  /\ UNCHANGED <<sessions, history>>

\* runInit: an empty .cdx in startDir unless it has one.
RunInit(p, startDir) ==
  /\ proc[p].pc = "idle"
  /\ IF files[startDir].exists
     THEN /\ proc' = [proc EXCEPT ![p] =
                        Return(Log(Fresh("init", startDir), "message"))]
          /\ UNCHANGED files
     ELSE /\ proc' = [proc EXCEPT ![p] =
                        Return(Log(Fresh("init", startDir), "create"))]
          /\ files' = [files EXCEPT ![startDir] =
                         [exists |-> TRUE, content |-> <<>>]]
  /\ UNCHANGED <<sessions, history>>

\* ---------------------------------------------------------------- runAdd

\* runAdd's first test: too many arguments, or "add" with an empty uuid.
wantsAddHelp(args) ==
  Len(args) > 3 \/ (Len(args) = 2 /\ args[2] = <<>>)

addedEntryUntrimmed(uuid, label) ==
  [uuid |-> uuid, label |-> sanitizeLabel(label)]

\* The entry runAdd appends.
addedEntry(uuid, label) == [uuid |-> trim(uuid), label |-> sanitizeLabel(label)]

\* The tail of runAdd once uuid and label are both given.
AddAppend(p, r) ==
  /\ files' = appendEntry(files, r.cdxPath, addedEntry(r.uuid, r.label))
  /\ proc' = [proc EXCEPT ![p] = Return(Log(r, "append"))]

\* runAdd up to its first prompt, or to its end when uuid and label are
\* both arguments.
StartAdd(p, startDir, args) ==
  /\ proc[p].pc = "idle"
  /\ LineCount(files) < MaxLines
  /\ Len(args) >= 1
  /\ args[1] = ADD
  /\ LET found == findCdxFile(files, startDir)
         uuid == argAt(args, 1)
         label == argAt(args, 2)
         r == [Fresh("add", startDir) EXCEPT
                 !.found = found.found,
                 !.cdxPath = IF found.found THEN found.dir ELSE startDir,
                 !.uuid = uuid, !.label = label]
     IN IF wantsAddHelp(args)
        THEN /\ proc' = [proc EXCEPT ![p] =
                           Return(Log(Fresh("add", startDir), "help"))]
             /\ UNCHANGED files
        ELSE IF uuid = <<>>
        THEN /\ proc' = [proc EXCEPT ![p] = [r EXCEPT !.pc = "promptUuid"]]
             /\ UNCHANGED files
        ELSE IF label = <<>>
        THEN /\ proc' = [proc EXCEPT ![p] = [r EXCEPT !.pc = "promptLabel"]]
             /\ UNCHANGED files
        ELSE AddAppend(p, r)
  /\ UNCHANGED <<sessions, history>>

\* promptUuid answers undefined (cancelled).
UuidCancelled(p) ==
  /\ proc[p].pc = "promptUuid"
  /\ proc' = [proc EXCEPT ![p] = Return(@)]
  /\ UNCHANGED <<files, sessions, history>>

\* promptUuid answers; the label is asked for unless it was an argument.
UuidGiven(p, uuidInput) ==
  /\ proc[p].pc = "promptUuid"
  /\ promptAccepts(uuidInput)
  /\ LET r == [proc[p] EXCEPT !.uuid = uuidInput]
     IN IF r.label = <<>>
        THEN /\ proc' = [proc EXCEPT ![p] = [r EXCEPT !.pc = "promptLabel"]]
             /\ UNCHANGED files
        ELSE AddAppend(p, r)
  /\ UNCHANGED <<sessions, history>>

\* promptLabel answers inside runAdd.
AddLabelGiven(p, labelInput) ==
  /\ proc[p].pc = "promptLabel"
  /\ proc[p].cmd = "add"
  /\ promptAccepts(labelInput)
  /\ AddAppend(p, [proc[p] EXCEPT !.label = labelInput])
  /\ UNCHANGED <<sessions, history>>

\* ------------------------------------------------------- specifications

\* What the caller types: arguments of "cdx add", and answers to prompts.
AddArgs ==
  {<<ADD>>,
   <<ADD, <<>>>>,
   <<ADD, <<"u">>>>,
   <<ADD, <<>>, <<"x", TAB, "y">>>>,
   <<ADD, <<"u">>, <<"x", TAB, "y">>>>,
   <<ADD, <<SP, "u">>, <<"x", NL, "y", CR>>>>,
   <<ADD, <<SP>>, <<"x", TAB, "y">>>>,
   <<ADD, <<"u">>, <<SP>>>>,
   <<ADD, <<"u">>, <<"x">>, <<"x">>>>}

UuidInputs == {<<"u">>, <<"u", SP>>}

LabelInputs == {<<SP, "x", NL, TAB, "y">>}

\* The directories a flow is started in: the root and the deepest one.
StartDirs == {0, MaxDepth}

Init ==
  /\ files = [d \in Dirs |-> NoFile]
  /\ sessions = [k \in SessionPaths |-> NoSessionFile]
  /\ history = NoHistory
  /\ proc = [p \in Procs |-> IdleProc]

\* One cdx process at a time, every flow, an orderly tool.
Next ==
  \/ \E d \in StartDirs, here \in BOOLEAN, forceNew \in BOOLEAN :
       StartDefault(1, d, here, forceNew)
  \/ SelectCancelled(1)
  \/ SelectNew(1)
  \/ \E i \in 1 .. MaxLines : SelectResume(1, i)
  \/ \E o \in CodexOutcomes, e \in OrderlyToolEffect(sessions, history) :
       CodexResumeExit(1, o, e)
  \/ LabelCancelled(1)
  \/ \E l \in LabelInputs : NewLabelGiven(1, l)
  \/ \E o \in CodexOutcomes, e \in OrderlyToolEffect(sessions, history) :
       CodexNewExit(1, o, e)
  \/ \E d \in StartDirs : StartRemove(1, d)
  \/ RemoveCancelled(1)
  \/ \E i \in 1 .. MaxLines : RemoveSelect(1, i)
  \/ \E d \in StartDirs : RunInit(1, d)
  \/ \E d \in StartDirs, a \in AddArgs : StartAdd(1, d, a)
  \/ UuidCancelled(1)
  \/ \E u \in UuidInputs : UuidGiven(1, u)
  \/ \E l \in LabelInputs : AddLabelGiven(1, l)

Spec == Init /\ [][Next]_vars

\* Session discovery on its own: the tool's storage starts in any state, a
\* run of the tool changes it in any way, and every flow is a new session
\* started in the root directory while nothing is registered yet.
Histories ==
  UNION {[1 .. n -> HistoryLines] : n \in 0 .. MaxHistory}

InitDiscovery ==
  /\ files = [d \in Dirs |-> NoFile]
  /\ sessions \in [SessionPaths -> SessionFileStates]
  /\ history \in {NoHistory} \cup {[exists |-> TRUE, lines |-> ls] :
                                     ls \in Histories}
  /\ proc = [p \in Procs |-> IdleProc]

\* The outcomes of runCodex on a platform without the PowerShell retry.
DirectOutcomes == {o \in CodexOutcomes : o.platform = "linux"}

NextDiscovery ==
  \/ LineCount(files) = 0 /\ StartDefault(1, 0, FALSE, TRUE)
  \/ LabelCancelled(1)
  \/ \E l \in LabelInputs : NewLabelGiven(1, l)
  \/ \E o \in DirectOutcomes, e \in AnyToolEffect(sessions, history) :
       CodexNewExit(1, o, e)

SpecDiscovery == InitDiscovery /\ [][NextDiscovery]_vars

\* Resolving the registry on its own: every directory starts with no .cdx,
\* an empty one or one holding an entry, and flows are started in any
\* directory and left at their first prompt.
RegistryStates ==
  {NoFile,
   [exists |-> TRUE, content |-> <<>>],
   [exists |-> TRUE, content |-> <<"u", TAB, "x", NL>>]}

InitWalk ==
  /\ files \in [Dirs -> RegistryStates]
  /\ sessions = [k \in SessionPaths |-> NoSessionFile]
  /\ history = NoHistory
  /\ proc = [p \in Procs |-> IdleProc]

NextWalk ==
  \/ \E d \in Dirs, here \in BOOLEAN : StartDefault(1, d, here, FALSE)
  \/ SelectCancelled(1)
  \/ LabelCancelled(1)
  \/ \E d \in Dirs : StartRemove(1, d)
  \/ RemoveCancelled(1)
  \/ \E d \in Dirs : StartAdd(1, d, <<ADD>>)
  \/ UuidCancelled(1)

SpecWalk == InitWalk /\ [][NextWalk]_vars

\* The registry codec on its own.  A state starts with entries to write and
\* read back, or with a registry text in the root directory to load through
\* the remove flow, or with a text to sanitize as a label.
CodecIds == {<<"u">>, <<"m">>, <<SP, "u">>, <<>>}

CodecLabels == {<<"x">>, <<"x", CR>>, <<"x", CR, "y">>}

CodecEntries == {[uuid |-> i, label |-> l] : i \in CodecIds, l \in CodecLabels}

EntrySeqs == UNION {[1 .. n -> CodecEntries] : n \in 0 .. MaxLines}

\* The lines a registry text is made of: well-formed ones (plain, padded
\* with whitespace, with a second tab, ending in a carriage return), and
\* ones with no tab, an empty id, an empty label, only a blank, nothing.
LinePieces ==
  {<<"u", TAB, "x">>,
   <<SP, "m", SP, TAB, SP, "y", SP>>,
   <<"u", TAB, "x", TAB, "y">>,
   <<"m", TAB, "x", CR>>,
   <<"u", "x">>,
   <<TAB, "x">>,
   <<"u", TAB, SP>>,
   <<SP>>,
   <<>>}

RECURSIVE joinNL(_)
joinNL(pieces) ==
  IF pieces = <<>> THEN <<>>
  ELSE IF Len(pieces) = 1 THEN pieces[1]
  ELSE pieces[1] \o <<NL>> \o joinNL(Tail(pieces))

Texts ==
  {joinNL(ls) : ls \in UNION {[1 .. n -> LinePieces] : n \in 0 .. MaxLines}}

LabelChars == {"x", SP, TAB, NL, CR}

LabelTexts == UNION {[1 .. n -> LabelChars] : n \in 0 .. MaxText}

\* writeEntries(cdxPath, given)
Serialize(p) ==
  /\ proc[p].pc = "serialize"
  /\ files' = writeEntries(files, proc[p].cdxPath, proc[p].given)
  /\ proc' = [proc EXCEPT ![p] =
                [Log(@, IF proc[p].given = <<>> THEN "unlink" ELSE "write")
                   EXCEPT !.pc = "parse"]]
  /\ UNCHANGED <<sessions, history>>

\* entries = loadEntries(cdxPath)
Parse(p) ==
  /\ proc[p].pc = "parse"
  /\ proc' = [proc EXCEPT ![p] =
                Return(Log([@ EXCEPT !.entries =
                              loadEntries(files, TRUE, proc[p].cdxPath)],
                           "load"))]
  /\ UNCHANGED <<files, sessions, history>>

\* label = sanitizeLabel(raw)
Sanitize(p) ==
  /\ proc[p].pc = "sanitize"
  /\ proc' = [proc EXCEPT ![p] =
                Return(Log([@ EXCEPT !.label = sanitizeLabel(proc[p].raw)],
                           "sanitize"))]
  /\ UNCHANGED <<files, sessions, history>>

InitCodec ==
  /\ sessions = [k \in SessionPaths |-> NoSessionFile]
  /\ history = NoHistory
  /\ \/ /\ files \in {[d \in Dirs |-> IF d = 0 THEN f ELSE NoFile] :
                         f \in RegistryStates}
        /\ proc \in {[p \in Procs |->
                        IF p = 1
                        THEN [IdleProc EXCEPT !.pc = "serialize",
                                              !.cmd = "codec",
                                              !.files0 = files, !.given = es]
                        ELSE IdleProc] : es \in EntrySeqs}
     \/ /\ files \in {[d \in Dirs |->
                          IF d = 0 THEN [exists |-> TRUE, content |-> t]
                          ELSE NoFile] : t \in Texts}
        /\ proc = [p \in Procs |-> IdleProc]
     \/ /\ files = [d \in Dirs |-> NoFile]
        /\ proc \in {[p \in Procs |->
                        IF p = 1
                        THEN [IdleProc EXCEPT !.pc = "sanitize",
                                              !.cmd = "codec", !.raw = t]
                        ELSE IdleProc] : t \in LabelTexts}

NextCodec ==
  \/ Serialize(1)
  \/ Parse(1)
  \/ Sanitize(1)
  \/ proc[1].cmd # "codec" /\ StartRemove(1, 0)
  \/ RemoveCancelled(1)
  \/ \E i \in 1 .. MaxLines : RemoveSelect(1, i)

SpecCodec == InitCodec /\ [][NextCodec]_vars

\* Two invocations at once on an unlocked registry: process 1 runs one
\* remove flow, process 2 runs add flows, and their steps interleave.  The
\* root directory starts with a registry of one or two entries.
RaceRegistries ==
  {[exists |-> TRUE, content |-> <<"u", TAB, "x", NL>>],
   [exists |-> TRUE, content |-> <<"u", TAB, "x", NL, "h", TAB, "x", NL>>]}

RaceAddArgs == {<<ADD, <<"m">>, <<"y">>>>, <<ADD, <<"m">>>>}

InitRace ==
  /\ files \in {[d \in Dirs |-> IF d = 0 THEN f ELSE NoFile] :
                  f \in RaceRegistries}
  /\ sessions = [k \in SessionPaths |-> NoSessionFile]
  /\ history = NoHistory
  /\ proc = [p \in Procs |-> IdleProc]

NextRace ==
  \/ \E d \in StartDirs : proc[1].cmd = "none" /\ StartRemove(1, d)
  \/ RemoveCancelled(1)
  \/ \E i \in 1 .. MaxLines : RemoveSelect(1, i)
  \/ \E d \in StartDirs, a \in RaceAddArgs : StartAdd(2, d, a)
  \/ LabelCancelled(2)
  \/ \E l \in LabelInputs : AddLabelGiven(2, l)

SpecRace == InitRace /\ [][NextRace]_vars

\* The loop of findCdxFile, one iteration a step.  Every directory starts
\* with no .cdx, an empty one or one holding an entry.

\* let dir = path.resolve(startDir)
FindStart(p, startDir) ==
  /\ proc[p].pc = "idle"
  /\ proc' = [proc EXCEPT ![p] =
                [Fresh("find", startDir) EXCEPT !.pc = "findCdxFile",
                                                !.dir = startDir]]
  /\ UNCHANGED <<files, sessions, history>>

FindStepSkipsParent(p) ==
  /\ proc[p].pc = "findCdxFile"
  /\ LET r == [proc[p] EXCEPT !.visited = Append(@, proc[p].dir)]
         parent == dirname(dirname(r.dir))
     IN proc' = [proc EXCEPT ![p] =
                   IF files[r.dir].exists
                   THEN Return([r EXCEPT !.found = TRUE, !.cdxPath = r.dir])
                   ELSE IF parent = r.dir
                   THEN Return([r EXCEPT !.found = FALSE])
                   ELSE [r EXCEPT !.dir = parent]]
  /\ UNCHANGED <<files, sessions, history>>

\* One pass of the while (true) body: test the candidate, else the root
\* test, else go to the parent.
FindStep(p) ==
  /\ proc[p].pc = "findCdxFile"
  /\ LET r == [proc[p] EXCEPT !.visited = Append(@, proc[p].dir)]
         parent == dirname(r.dir)
     IN proc' = [proc EXCEPT ![p] =
                   IF files[r.dir].exists
                   THEN Return([r EXCEPT !.found = TRUE, !.cdxPath = r.dir])
                   ELSE IF parent = r.dir
                   THEN Return([r EXCEPT !.found = FALSE])
                   ELSE [r EXCEPT !.dir = parent]]
  /\ UNCHANGED <<files, sessions, history>>

NextFind ==
  \/ \E d \in Dirs : FindStart(1, d)
  \/ FindStep(1)

\* The process is scheduled as long as it has a step to take.
SpecFind == InitWalk /\ [][NextFind]_vars /\ WF_vars(FindStep(1))

\* ---------------------------------------------------------------- claims

Has(trace, event) == \E i \in 1 .. Len(trace) : trace[i] = event

\* Process 1 ended a new-session flow whose tool exited with status 0.
NewSessionRan ==
  /\ proc[1].pc = "idle"
  /\ proc[1].cmd = "default"
  /\ proc[1].selection.type = "new"
  /\ Has(proc[1].trace, "returned")

\* The post-run snapshot is the primary signal against the prior one.
PrimaryHolds ==
  LET after == proc[1].latestSession
      before == proc[1].previousSession
  IN /\ after.exists
     /\ after.id # <<>>
     /\ \/ ~before.exists
        \/ after.path # before.path
        \/ after.mtimeMs > before.mtimeMs

\* The registry files of the start of process 1's flow, with the line
\* <id><TAB><label><NL> added at the end of the resolved registry.
WithLine(id, label) ==
  [proc[1].files0 EXCEPT ![proc[1].cdxPath] =
     [exists |-> TRUE, content |-> @.content \o id \o <<TAB>> \o label \o <<NL>>]]

\* C1: in a new-session flow whose tool exited 0, when the post-run snapshot
\* exists with an id and there was no prior snapshot, or its path differs
\* from the prior one's, or its timestamp is strictly greater, the id
\* appended to the registry is the post-run snapshot's id and the history
\* log is not consulted to choose it.
C1_PrimaryPath ==
  (NewSessionRan /\ PrimaryHolds)
    => /\ proc[1].newId = proc[1].latestSession.id
       /\ files = WithLine(proc[1].latestSession.id, proc[1].label)
       /\ ~Has(proc[1].trace, "newestSince")

\* A new path with a timestamp not above the prior snapshot's was registered.
C1_Witness ==
  /\ NewSessionRan
  /\ PrimaryHolds
  /\ proc[1].previousSession.exists
  /\ proc[1].latestSession.path # proc[1].previousSession.path
  /\ proc[1].latestSession.mtimeMs <= proc[1].previousSession.mtimeMs
  /\ Has(proc[1].trace, "append")
  /\ proc[1].previousHistoryId # <<>>

\* The places of the history records with a session_id other than id.
Differing(id) ==
  {i \in 1 .. Len(history.lines) :
     /\ history.lines[i].ok
     /\ history.lines[i].session_id # <<>>
     /\ history.lines[i].session_id # id}

LastOf(S) == CHOOSE i \in S : \A j \in S : j <= i

\* C2: when the primary condition fails and the history id captured before
\* the run is not null, the result is the session_id of the last history
\* record whose session_id differs from that id (malformed lines skipped),
\* and that is the id registered; without such a record there is no result.
C2_FallbackPath ==
  LET prev == proc[1].previousHistoryId
  IN (NewSessionRan /\ ~PrimaryHolds /\ prev # <<>>)
       => IF Differing(prev) = {}
          THEN proc[1].newId = <<>>
          ELSE /\ proc[1].newId = history.lines[LastOf(Differing(prev))].session_id
               /\ files = WithLine(proc[1].newId, proc[1].label)

\* On an exact tie of the timestamps the fallback chose among two ids.
C2_Witness ==
  LET prev == proc[1].previousHistoryId
  IN /\ NewSessionRan
     /\ ~PrimaryHolds
     /\ prev # <<>>
     /\ proc[1].latestSession.exists
     /\ proc[1].latestSession.id # <<>>
     /\ proc[1].latestSession.path = proc[1].previousSession.path
     /\ proc[1].latestSession.mtimeMs = proc[1].previousSession.mtimeMs
     /\ \E i, j \in Differing(prev) :
          history.lines[i].session_id # history.lines[j].session_id
     /\ Has(proc[1].trace, "append")

\* C3: whenever reconciliation yields no identifier, an error is reported,
\* nothing is appended and every registry file is as it was before the flow.
C3_DiscoveryFailure ==
  (NewSessionRan /\ proc[1].newId = <<>>)
    => /\ Has(proc[1].trace, "error")
       /\ ~Has(proc[1].trace, "append")
       /\ files = proc[1].files0

\* No prior snapshot, no post-run snapshot, no prior history id, and a
\* registry that held entries before the flow.
C3_Witness ==
  /\ NewSessionRan
  /\ proc[1].newId = <<>>
  /\ ~proc[1].previousSession.exists
  /\ ~proc[1].latestSession.exists
  /\ proc[1].previousHistoryId = <<>>
  /\ proc[1].files0[proc[1].cdxPath].content # <<>>
  /\ Has(proc[1].trace, "error")

\* Process 1 ended a new-session flow whose tool exited with a status
\* other than 0 (directly, or under the PowerShell retry).
NewSessionToolFailed ==
  /\ proc[1].pc = "idle"
  /\ proc[1].cmd = "default"
  /\ proc[1].selection.type = "new"
  /\ \/ proc[1].codex.error = "none" /\ proc[1].codex.status \notin {0, NullStatus}
     \/ /\ proc[1].codex.error = "ENOENT"
        /\ proc[1].codex.platform = "win32"
        /\ ~proc[1].codex.psError
        /\ proc[1].codex.psStatus \notin {0, NullStatus}

\* C4: when the tool of a new-session flow exits with a non-zero status, the
\* process exits with that status, no second snapshot is taken, nothing is
\* reconciled, and no registry file is created or changed.
C4_ChildFailure ==
  NewSessionToolFailed
    => /\ proc[1].exitCode = (IF proc[1].codex.error = "none"
                              THEN proc[1].codex.status
                              ELSE proc[1].codex.psStatus)
       /\ proc[1].trace = <<"path", "lastHistoryId", "snapshot", "spawn">>
       /\ proc[1].latestSession = NoSnapshot
       /\ proc[1].newId = <<>>
       /\ files = proc[1].files0

\* The tool started a session before failing, in a flow with no registry.
C4_Witness ==
  /\ NewSessionToolFailed
  /\ proc[1].exitCode = 2
  /\ ~proc[1].previousSession.exists
  /\ sessions[2].exists
  /\ ~proc[1].found
  /\ ~files[proc[1].cdxPath].exists

\* C5: resuming a chosen entry starts the tool with ("resume", that entry's
\* id), and the registry files stay as they were whatever the tool does.
C5_ResumeFrame ==
  (proc[1].cmd = "default" /\ proc[1].selection.type = "resume")
    => /\ \E i \in 1 .. Len(proc[1].entries) :
            /\ proc[1].selection.entry = proc[1].entries[i]
            /\ proc[1].spawned.args = <<RESUME, proc[1].entries[i].uuid>>
       /\ proc[1].entries = loadEntries(proc[1].files0, TRUE, proc[1].cdxPath)
       /\ Has(proc[1].trace, "spawn")
       /\ files = proc[1].files0

\* The second entry was resumed and the tool was missing.
C5_Witness ==
  /\ proc[1].pc = "idle"
  /\ proc[1].cmd = "default"
  /\ proc[1].selection.type = "resume"
  /\ Len(proc[1].entries) >= 2
  /\ proc[1].selection.entry = proc[1].entries[2]
  /\ proc[1].codex.error = "ENOENT"
  /\ proc[1].exitCode = 1

\* Process 1 ended a remove flow that removed the uuid of a chosen entry.
Removed ==
  /\ proc[1].pc = "idle"
  /\ proc[1].cmd = "rm"
  /\ proc[1].selection.type = "remove"

\* The entries of the resolved registry before the flow of process 1.
EntriesBefore == loadEntries(proc[1].files0, TRUE, proc[1].cdxPath)

\* The entries of the resolved registry now.
EntriesNow == loadEntries(files, TRUE, proc[1].cdxPath)

\* The entries before the flow whose id is not the chosen one, in order.
Others ==
  LET Keep(e) == e.uuid # proc[1].selection.entry.uuid
  IN SelectSeq(EntriesBefore, Keep)

C7_RemovalToEmpty ==
  (Removed /\ Others = <<>>)
    => /\ ~files[proc[1].cdxPath].exists
       /\ proc[1].trace = <<"path", "unlink">>
       /\ \A d \in Dirs : d # proc[1].cdxPath => files[d] = proc[1].files0[d]

\* A registry of two entries with the same id was removed.
C7_Witness ==
  /\ Removed
  /\ Len(EntriesBefore) = 2
  /\ Others = <<>>
  /\ ~files[proc[1].cdxPath].exists

\* Process 1 ended an add flow that appended its entry.
Added ==
  /\ proc[1].pc = "idle"
  /\ proc[1].cmd = "add"
  /\ Has(proc[1].trace, "append")

\* The registry files of the start of process 1's flow, with the file of
\* its start directory created holding the one line <id><TAB><label><NL>.
CreatedWith(id, label) ==
  [proc[1].files0 EXCEPT ![proc[1].startDir] =
     [exists |-> TRUE, content |-> id \o <<TAB>> \o label \o <<NL>>]]

\* C8 as stated: add(id, label) with a non-empty id and label never starts
\* the tool, and with no registry file it creates one whose content is the
\* single line <id><TAB><sanitized label><NL>.
C8_AddAsStated ==
  (Added /\ proc[1].uuid # <<>> /\ proc[1].label # <<>>)
    => /\ ~Has(proc[1].trace, "spawn")
       /\ ~proc[1].found
            => files = CreatedWith(proc[1].uuid, sanitizeLabel(proc[1].label))

\* C8, amended: add(id, label) with a non-empty id and label never starts
\* the tool, and with no registry file it creates one in the start directory
\* whose content is the single line <id, trimmed><TAB><sanitized label><NL>.
C8_AddCreates ==
  (Added /\ proc[1].uuid # <<>> /\ proc[1].label # <<>>)
    => /\ ~Has(proc[1].trace, "spawn")
       /\ proc[1].spawned = NoSpawn
       /\ ~proc[1].found
            => files = CreatedWith(trim(proc[1].uuid),
                                   sanitizeLabel(proc[1].label))

\* "add u <x TAB y>" from the deepest directory, with no registry anywhere.
C8_Witness ==
  /\ Added
  /\ ~proc[1].found
  /\ proc[1].startDir = MaxDepth
  /\ proc[1].uuid = <<"u">>
  /\ proc[1].label = <<"x", TAB, "y">>
  /\ files[MaxDepth].content = <<"u", TAB, "x", SP, "y", NL>>
  /\ ~files[0].exists

\* The lines of a registry text (the text ends each with a newline).
LinesOf(content) ==
  LET pieces == split(content)
  IN SubSeq(pieces, 1, Len(pieces) - 1)

\* <id><TAB><label>: one tab, after a non-empty id and before a non-empty
\* label, and no newline.
WellFormedLine(line) ==
  /\ \E t \in 2 .. Len(line) - 1 :
       /\ line[t] = TAB
       /\ \A i \in 1 .. Len(line) : i # t => line[i] \notin {TAB, NL}

\* C9: after any sequence of flows every line of every registry file is
\* <id><TAB><label> with a non-empty id without tab and a non-empty label
\* without tab or newline, and loading the file drops no line.
C9_LineInvariant ==
  \A d \in Dirs :
    files[d].exists
      => /\ \A i \in 1 .. Len(LinesOf(files[d].content)) :
              WellFormedLine(LinesOf(files[d].content)[i])
         /\ Len(loadEntries(files, TRUE, d)) = Len(LinesOf(files[d].content))

\* C10: an add flow whose id is empty after trimming or whose label is empty
\* after sanitization, and a new-session flow whose label is, abort with
\* the registry files unchanged, the new-session flow without starting the
\* tool.
C10_ValidationBeforeMutation ==
  /\ (/\ proc[1].pc = "idle"
      /\ proc[1].cmd = "add"
      /\ ~Has(proc[1].trace, "help")
      /\ (trim(proc[1].uuid) = <<>> \/ sanitizeLabel(proc[1].label) = <<>>))
       => files = proc[1].files0
  /\ (/\ proc[1].pc = "idle"
      /\ proc[1].cmd = "default"
      /\ proc[1].selection.type = "new"
      /\ proc[1].label = <<>>)
       => (files = proc[1].files0 /\ ~Has(proc[1].trace, "spawn"))

\* Process 1 runs or ran the default flow in local-only ("here") mode.
LocalOnly == proc[1].cmd = "default" /\ proc[1].here

\* C11: in local-only mode the start directory is the sole candidate: when
\* it holds a registry file the entries loaded and offered are that file's
\* parsed entries, and when it holds none the registry counts as absent and
\* nothing is loaded, whatever the ancestors hold.
C11_LocalOnlyMode ==
  LocalOnly
    => IF proc[1].files0[proc[1].startDir].exists
       THEN proc[1].entries
              = loadEntries(proc[1].files0, TRUE, proc[1].startDir)
       ELSE proc[1].entries = <<>> /\ ~proc[1].found

\* The directories on the path from dir up to the root, dir included.
RECURSIVE PathUp(_)
PathUp(dir) ==
  {dir} \cup (IF dirname(dir) = dir THEN {} ELSE PathUp(dirname(dir)))

\* The directories on the path up from the start directory of process 1
\* that held a registry file when its flow started.
Holders ==
  {d \in PathUp(proc[1].startDir) : proc[1].files0[d].exists}

\* Process 1 runs or ran a flow that resolves the registry by walking up.
WalkedUp ==
  \/ proc[1].cmd = "rm"
  \/ proc[1].cmd = "add" /\ ~Has(proc[1].trace, "help")
  \/ proc[1].cmd = "default" /\ ~proc[1].here

\* C12: from every start directory the registry found is that of the nearest
\* directory on the path from the start directory up to the root (the start
\* directory included) that holds a registry file, and none is found exactly
\* when no directory on that path holds one.
C12_WalkUp ==
  WalkedUp
    => /\ proc[1].found <=> Holders # {}
       /\ proc[1].found
            => /\ proc[1].cdxPath \in Holders
               /\ \A d \in Holders : d \in PathUp(proc[1].cdxPath)

\* Nested directories 0/1/2 with a registry only at 0: from 2, 0's is found.
C12_Witness ==
  /\ proc[1].cmd = "rm"
  /\ proc[1].startDir = 2
  /\ proc[1].files0[0].exists
  /\ ~proc[1].files0[1].exists
  /\ ~proc[1].files0[2].exists
  /\ proc[1].found
  /\ proc[1].cdxPath = 0

\* Process 1 wrote the given entries and loaded them back.
RoundTripped ==
  /\ proc[1].pc = "idle"
  /\ proc[1].cmd = "codec"
  /\ Has(proc[1].trace, "load")

NoTabNoNewline(s) == \A i \in 1 .. Len(s) : s[i] \notin {TAB, NL}

\* Not empty, and neither the first nor the last character is whitespace.
NoBlankEnds(s) ==
  /\ s # <<>>
  /\ ~IsWhiteSpace(s[1])
  /\ ~IsWhiteSpace(s[Len(s)])

\* C13 as stated: for every sequence of entries whose ids and labels hold no
\* tab and no newline, loading what writeEntries wrote yields the sequence,
\* in order; the empty sequence deletes the file and loads as empty.
C13_RoundTripAsStated ==
  (/\ RoundTripped
   /\ \A i \in 1 .. Len(proc[1].given) :
        /\ NoTabNoNewline(proc[1].given[i].uuid)
        /\ NoTabNoNewline(proc[1].given[i].label))
    => /\ proc[1].entries = proc[1].given
       /\ proc[1].given = <<>> => ~files[proc[1].cdxPath].exists

\* C13, amended: for every sequence of entries whose ids and labels hold no
\* tab and no newline, are not empty and neither begin nor end with
\* whitespace, loading what writeEntries wrote yields the sequence, in order;
\* the empty sequence deletes the file and loads as empty.
C13_RoundTrip ==
  (/\ RoundTripped
   /\ \A i \in 1 .. Len(proc[1].given) :
        /\ NoTabNoNewline(proc[1].given[i].uuid)
        /\ NoTabNoNewline(proc[1].given[i].label)
        /\ NoBlankEnds(proc[1].given[i].uuid)
        /\ NoBlankEnds(proc[1].given[i].label))
    => /\ proc[1].entries = proc[1].given
       /\ proc[1].given = <<>> => ~files[proc[1].cdxPath].exists

\* Three entries, two of them equal and one with a carriage return inside
\* its label, written over an older registry and loaded back in order.
C13_Witness ==
  /\ RoundTripped
  /\ proc[1].given = <<[uuid |-> <<"m">>, label |-> <<"x", CR, "y">>],
                       [uuid |-> <<"u">>, label |-> <<"x">>],
                       [uuid |-> <<"m">>, label |-> <<"x", CR, "y">>]>>
  /\ proc[1].files0[0].content # <<>>
  /\ proc[1].entries = proc[1].given

\* The place of the first tab of a trimmed line, as a set (empty: no tab).
FirstTab(t) ==
  {i \in 1 .. Len(t) : t[i] = TAB /\ \A j \in 1 .. i - 1 : t[j] # TAB}

\* After trimming, the line holds a tab with a non-empty trimmed id before
\* the first tab and a non-empty trimmed label after it.
ValidLine(line) ==
  \E i \in FirstTab(trim(line)) :
    /\ trim(SubSeq(trim(line), 1, i - 1)) # <<>>
    /\ trim(SubSeq(trim(line), i + 1, Len(trim(line)))) # <<>>

EntryOfLine(line) ==
  LET t == trim(line)
      i == CHOOSE k \in FirstTab(t) : TRUE
  IN [uuid |-> trim(SubSeq(t, 1, i - 1)),
      label |-> trim(SubSeq(t, i + 1, Len(t)))]

\* The entries of the valid lines of a text, in the order of the lines.
ValidEntries(content) ==
  LET valid == SelectSeq(split(content), ValidLine)
  IN [k \in 1 .. Len(valid) |-> EntryOfLine(valid[k])]

\* Process 1 runs or ran a remove flow on a registry file it found.
LoadedForRemove == proc[1].cmd = "rm" /\ proc[1].found

\* C14: for every registry text, loading raises no error and yields exactly
\* the entries of the lines that, trimmed, hold a tab after a non-empty
\* trimmed id and before a non-empty trimmed label, in the order of the
\* lines; the lines with no tab, an empty id or an empty label are dropped.
C14_MalformedLines ==
  LoadedForRemove
    => /\ proc[1].entries
            = ValidEntries(proc[1].files0[proc[1].cdxPath].content)
       /\ proc[1].exitCode = 0

\* A padded line, a line with no tab and a line with two tabs: the first and
\* the third are loaded, in that order.
C14_Witness ==
  /\ LoadedForRemove
  /\ proc[1].files0[0].content
       = <<SP, "m", SP, TAB, SP, "y", SP, NL, "u", "x", NL,
           "u", TAB, "x", TAB, "y">>
  /\ proc[1].entries = <<[uuid |-> <<"m">>, label |-> <<"y">>],
                         [uuid |-> <<"u">>, label |-> <<"x", TAB, "y">>]>>

\* Process 1 sanitized the text raw into label.
Sanitized ==
  /\ proc[1].pc = "idle"
  /\ proc[1].cmd = "codec"
  /\ Has(proc[1].trace, "sanitize")

\* C15: sanitizing a sanitized label changes nothing: for every text t,
\* sanitizeLabel(sanitizeLabel(t)) = sanitizeLabel(t).
C15_SanitizeIdempotent ==
  Sanitized => sanitizeLabel(proc[1].label) = proc[1].label

\* Two blanks before a character and a line break after it: the first
\* pass changed the text and left nothing for a second one.
C15_Witness ==
  /\ Sanitized
  /\ proc[1].raw = <<SP, SP, "x", NL>>
  /\ proc[1].label = <<"x">>

\* The events that start the tool or change a registry file.
ActingEvents == {"spawn", "append", "write", "unlink", "create"}

\* C16: in every flow that resolves a registry (default, new, resume,
\* remove, add) the resolved registry path is printed before the tool is
\* started and before a registry file is created, appended to, rewritten or
\* deleted.
C16_PathBeforeAction ==
  proc[1].cmd \in {"default", "rm", "add"}
    => \A i \in 1 .. Len(proc[1].trace) :
         proc[1].trace[i] \in ActingEvents
           => \E j \in 1 .. i - 1 : proc[1].trace[j] = "path"

\* Process 1 ran init.
InitRan == proc[1].pc = "idle" /\ proc[1].cmd = "init"

\* C17: init creates an empty registry file in exactly the given directory
\* when that directory has none, whatever its ancestors hold, and leaves
\* every file as it is when the directory has one; so a second run changes
\* nothing.
C17_InitIdempotentLocal ==
  InitRan
    => IF proc[1].files0[proc[1].startDir].exists
       THEN files = proc[1].files0 /\ proc[1].trace = <<"message">>
       ELSE /\ files = [proc[1].files0 EXCEPT ![proc[1].startDir] =
                          [exists |-> TRUE, content |-> <<>>]]
            /\ proc[1].trace = <<"create">>

\* Init ran in the deepest directory while the root held entries, and ran
\* there again: the second run found the empty file and changed nothing.
C17_Witness ==
  /\ InitRan
  /\ proc[1].startDir = MaxDepth
  /\ proc[1].files0[MaxDepth] = [exists |-> TRUE, content |-> <<>>]
  /\ proc[1].files0[0].content # <<>>
  /\ files = proc[1].files0

\* Process 1 started a remove flow with nothing to remove: no registry file
\* on the way up, or one without a valid line.
NothingToRemove ==
  /\ proc[1].cmd = "rm"
  /\ \/ Holders = {}
     \/ /\ proc[1].found
        /\ ValidEntries(proc[1].files0[proc[1].cdxPath].content) = <<>>

\* C18: when no registry file is found, or the one found holds no valid
\* entry, the remove flow prints a message and ends with exit code 0, and
\* no file is created, rewritten or deleted.
C18_NothingToRemove ==
  NothingToRemove
    => /\ proc[1].pc = "idle"
       /\ proc[1].exitCode = 0
       /\ proc[1].trace = <<"message">>
       /\ files = proc[1].files0

\* The registry found holds lines, none of them valid, and is left alone.
C18_Witness ==
  /\ NothingToRemove
  /\ proc[1].found
  /\ proc[1].files0[proc[1].cdxPath].content # <<>>
  /\ files[proc[1].cdxPath].exists
  /\ proc[1].trace = <<"message">>

\* The session ids recorded in the history log.
RecordedIds ==
  {history.lines[i].session_id : i \in {k \in 1 .. Len(history.lines) :
                                          /\ history.lines[k].ok
                                          /\ history.lines[k].session_id # <<>>}}

\* The step in which the tool of process 1's new-session flow exits with
\* status 0 and the flow runs to its end.
NewSessionReturns ==
  /\ proc[1].pc = "codexNew"
  /\ proc'[1].pc = "idle"
  /\ Has(proc'[1].trace, "returned")

\* C19: when the tool of a new-session flow exits 0 and leaves the session
\* files and the history log exactly as they were, discovery fails and
\* nothing is appended; and the flow never registers an id that the history
\* log recorded before the tool was started.
C19_NoStaleId ==
  [][NewSessionReturns
       => /\ (sessions' = sessions /\ history' = history)
               => /\ proc'[1].newId = <<>>
                  /\ Has(proc'[1].trace, "error")
                  /\ files' = files
          /\ Has(proc'[1].trace, "append")
               => proc'[1].newId \notin RecordedIds]_vars

\* Process 1 ended an add or new-session flow that appended an entry.
Appended ==
  /\ proc[1].pc = "idle"
  /\ proc[1].cmd \in {"add", "default"}
  /\ Has(proc[1].trace, "append")

\* The entry that flow handed to appendEntry.
NewEntry ==
  IF proc[1].cmd = "add"
  THEN [uuid |-> trim(proc[1].uuid), label |-> sanitizeLabel(proc[1].label)]
  ELSE [uuid |-> proc[1].newId, label |-> proc[1].label]

IsPrefix(s, t) == Len(s) <= Len(t) /\ SubSeq(t, 1, Len(s)) = s

\* C20: from every registry state the flows reach, a successful add or
\* new-session flow leaves the bytes already in the file as they were (and
\* the other registry files too), and the entries loaded afterwards are the
\* entries loaded before followed by the new entry.
C20_AppendPreserves ==
  Appended
    => /\ IsPrefix(proc[1].files0[proc[1].cdxPath].content,
                   files[proc[1].cdxPath].content)
       /\ \A d \in Dirs : d # proc[1].cdxPath => files[d] = proc[1].files0[d]
       /\ EntriesNow = Append(EntriesBefore, NewEntry)

\* The events of a new-session flow up to the start of the tool, and up to
\* the second snapshot.
UpToSpawn == <<"path", "lastHistoryId", "snapshot", "spawn">>

UpToSecondSnapshot == UpToSpawn \o <<"returned", "snapshot">>

\* C21: in every new-session run the prior history id and the prior snapshot
\* are taken before the tool is started, from the storage as it is then; the
\* second snapshot is taken only after the tool has exited, from the storage
\* as the tool left it; and the append comes last, after reconciliation has
\* produced an identifier.
C21_StepOrdering ==
  /\ (proc[1].cmd = "default" /\ proc[1].pc = "codexNew")
       => /\ proc[1].trace = UpToSpawn
          /\ proc[1].previousHistoryId = getLastHistorySessionId(history)
          /\ proc[1].previousSession = getLatestSessionSnapshot(sessions)
          /\ proc[1].latestSession = NoSnapshot
          /\ files = proc[1].files0
  /\ NewSessionRan
       => /\ IsPrefix(UpToSecondSnapshot, proc[1].trace)
          /\ proc[1].latestSession = getLatestSessionSnapshot(sessions)
          /\ \A i \in 1 .. Len(proc[1].trace) :
               proc[1].trace[i] = "append"
                 => /\ i = Len(proc[1].trace)
                    /\ proc[1].newId # <<>>
          /\ ~Has(proc[1].trace, "append") => files = proc[1].files0

\* The tool changed the latest session file, the fallback was not needed
\* and the id was appended after the second snapshot.
C21_Witness ==
  /\ NewSessionRan
  /\ proc[1].previousSession.exists
  /\ proc[1].previousHistoryId # <<>>
  /\ proc[1].latestSession # proc[1].previousSession
  /\ proc[1].trace = UpToSecondSnapshot \o <<"append">>

\* The registry text of a sequence of entries: <id><TAB><label><NL> each.
RECURSIVE TextOf(_)
TextOf(es) ==
  IF es = <<>> THEN <<>>
  ELSE Head(es).uuid \o <<TAB>> \o Head(es).label \o <<NL>> \o TextOf(Tail(es))

\* The step in which process 1's remove flow writes the registry back.
RemoveWrites ==
  /\ proc[1].pc = "removeSelect"
  /\ proc'[1].pc = "idle"
  /\ proc'[1].selection.type = "remove"

\* C22: the registry is not locked.  What a remove flow writes back is made
\* of the entries it loaded at its start alone, whatever the file holds by
\* then: an entry another invocation appended between the load and the
\* write is discarded by the rewrite, or goes with the deleted file.
C22_LastWriterWins ==
  [][RemoveWrites
       => LET Keep(e) == e.uuid # proc'[1].selection.entry.uuid
              kept == SelectSeq(proc[1].entries, Keep)
          IN files'[proc[1].cdxPath]
               = IF kept = <<>> THEN NoFile
                 ELSE [exists |-> TRUE, content |-> TextOf(kept)]]_vars

\* Process 2 added an entry to the registry process 1 had loaded and not
\* yet written back; process 1 then rewrote the file, and the entry added
\* with success is not in it.
C22_Witness ==
  /\ Removed
  /\ proc[1].trace = <<"path", "write">>
  /\ proc[2].pc = "idle"
  /\ proc[2].cmd = "add"
  /\ Has(proc[2].trace, "append")
  /\ proc[2].cdxPath = proc[1].cdxPath
  /\ proc[2].files0 = proc[1].files0
  /\ \A i \in 1 .. Len(EntriesNow) : EntriesNow[i].uuid # trim(proc[2].uuid)
  /\ proc[1].selection.entry.uuid # trim(proc[2].uuid)

\* The session files that exist.
Artifacts == {k \in SessionPaths : sessions[k].exists}

\* What C23 asks of a snapshot s of the session files as they are now.
SnapshotAsClaimed(s) ==
  /\ s.exists <=> Artifacts # {}
  /\ ~s.exists => s = NoSnapshot
  /\ s.exists
       => /\ s.path \in Artifacts
          /\ s.mtimeMs = sessions[s.path].mtimeMs
          /\ \A k \in Artifacts : sessions[k].mtimeMs <= s.mtimeMs
          /\ s.id = IF sessions[s.path].meta # <<>>
                    THEN sessions[s.path].meta
                    ELSE extractIdFromFilename(s.path)

\* C23: the snapshot is null exactly when no session file exists; else it
\* holds the path and the modification time of a file whose modification
\* time is the greatest of all, and as id that of the file's session_meta
\* first line when there is one, else the uuid in the file name, else null.
C23_LatestSnapshot ==
  /\ (proc[1].cmd = "default" /\ proc[1].pc = "codexNew")
       => SnapshotAsClaimed(proc[1].previousSession)
  /\ NewSessionRan => SnapshotAsClaimed(proc[1].latestSession)

\* Two session files, the first listed the newer one and without a
\* session_meta line: the snapshot is of that file, with the id of its name.
C23_Witness ==
  /\ proc[1].cmd = "default"
  /\ proc[1].pc = "codexNew"
  /\ Artifacts = SessionPaths
  /\ sessions[1].mtimeMs > sessions[2].mtimeMs
  /\ sessions[1].meta = <<>>
  /\ proc[1].previousSession.path = 1
  /\ proc[1].previousSession.id = <<"u">>

\* Process 1 is in the loop of findCdxFile.
Searching == proc[1].pc = "findCdxFile"

\* Process 1 has left the loop of findCdxFile.
SearchEnded == proc[1].pc = "idle" /\ proc[1].cmd = "find"

\* The directories tested so far go from the start directory from child to
\* parent, none twice, and none before the last holds a registry file.
SearchOrder ==
  LET v == proc[1].visited
  IN /\ v # <<>> => v[1] = proc[1].startDir
     /\ \A i \in 1 .. Len(v) - 1 :
          /\ v[i + 1] = dirname(v[i])
          /\ v[i + 1] # v[i]
          /\ ~files[v[i]].exists
     /\ \A i, j \in 1 .. Len(v) : i # j => v[i] # v[j]

\* The search stopped at the first directory with a registry file, or at
\* the root, where the parent is the directory itself; its result is that
\* of findCdxFile taken as a whole.
StoppedRight ==
  LET v == proc[1].visited
      last == v[Len(v)]
  IN /\ v # <<>>
     /\ IF proc[1].found
        THEN files[last].exists /\ proc[1].cdxPath = last
        ELSE ~files[last].exists /\ dirname(last) = last
     /\ proc[1].found = findCdxFile(files, proc[1].startDir).found
     /\ proc[1].found
          => proc[1].cdxPath = findCdxFile(files, proc[1].startDir).dir

\* C24: from every start directory the search ends; it tests each ancestor
\* at most once, from child to parent, and stops at the first directory
\* that holds a registry file or at the filesystem root.
C24_WalkUpTerminates ==
  /\ []((proc[1].cmd = "find") => SearchOrder)
  /\ [](SearchEnded => StoppedRight)
  /\ Searching ~> SearchEnded

\* From the deepest directory of an empty chain every directory was tested
\* once and the search ended at the root without a result.
C24_Witness ==
  /\ SearchEnded
  /\ proc[1].startDir = MaxDepth
  /\ Len(proc[1].visited) = MaxDepth + 1
  /\ ~proc[1].found

====
